---- MODULE Spec2Model ----
(***************************************************************************)
(* The alert-to-order pipeline of the trading bot: the processAlert        *)
(* function (netlify/functions/processAlert.js), the exchange client it    *)
(* imports (netlify/utils/bybit.js) and the backing store it reads and     *)
(* writes (webhooks, bots, api_keys, trades).                              *)
(*                                                                         *)
(* Every invocation of the handler is a process; each of its steps runs    *)
(* from one await to the next, so invocations interleave at the awaits.    *)
(***************************************************************************)
EXTENDS Integers, Sequences, FiniteSets, TLC

\* ------------------------------------------------------------- bounds
\* The clock (Date.now(), in model ticks) runs from 0 to MaxTime.
MaxTime == 1

VARIABLES
  now,        \* the wall clock read by Date.now() / new Date()
  envOk,      \* SUPABASE_URL and SUPABASE_SERVICE_KEY are both set
  webhooks,   \* table webhooks: a set of rows
  bots,       \* table bots: id -> row
  api_keys,   \* table api_keys: a set of rows
  trades,     \* table trades: the rows in insertion order
  inv,        \* the invocations of processAlert: id -> local state
  page,       \* the bot configuration page of the signed-in user (deleteBot)
  call,       \* a call of an exchange client's executeBybitOrder on its own
  hook        \* the last request for a webhook URL and its outcome

vars ==
  <<now, envOk, webhooks, bots, api_keys, trades, inv, page, call, hook>>

\* Two invocations, which may overlap. The handler keeps nothing between
\* invocations: they meet only in the store.
Invocations == {1, 2}

\* ------------------------------------------------ JavaScript values
\* A JSON / JavaScript value is a pair <<type, text>>.
Undefined == <<"undefined", "">>
Null == <<"null", "">>
Num(s) == <<"number", s>>
Str(s) == <<"string", s>>

\* ToBoolean: undefined, null, 0 and "" are falsy.
Truthy(v) ==
  CASE v[1] = "number" -> v[2] # "0"
    [] v[1] = "string" -> v[2] # ""
    [] OTHER -> FALSE

\* v == null (loose): undefined or null.
Nullish(v) == v[1] \in {"undefined", "null"}

\* a ?? b
Coalesce(a, b) == IF Nullish(a) THEN b ELSE a

\* a || b
Or(a, b) == IF Truthy(a) THEN a ELSE b

\* String(v) as a template literal prints it.
ValText(v) ==
  CASE v[1] = "undefined" -> "undefined"
    [] v[1] = "null" -> "null"
    [] OTHER -> v[2]

\* A text (message, log line) is a sequence of atoms; Contains is "appears in".
Contains(text, atom) == \E i \in 1..Len(text) : text[i] = atom

\* ------------------------------------------------------ the requests
AlertFields ==
  {"symbol", "side", "orderType", "quantity", "price", "stopLoss", "takeProfit"}

\* {}: every field absent.
EmptyAlert == [f \in AlertFields |-> Undefined]

\* Fields present and truthy (symbol, orderType, price, takeProfit), present
\* but falsy (quantity 0, stopLoss 0) and null (side).
MixedAlert ==
  [symbol |-> Str("ETHUSDT"), side |-> Null, orderType |-> Str("Limit"),
   quantity |-> Num("0"), price |-> Num("100"), stopLoss |-> Num("0"),
   takeProfit |-> Num("120")]

Alerts == {EmptyAlert, MixedAlert}

\* A request body: JSON text that parses to an alert, or text req.json() rejects.
Bodies ==
  {[json |-> TRUE, data |-> a] : a \in Alerts}
    \cup {[json |-> FALSE, data |-> EmptyAlert]}

Methods == {"POST", "OPTIONS", "GET"}

\* ------------------------------------------------- the backing store
\* SQL NULL in an integer column (trade_count, last_trade_at).
NoCount == -1
NoTime == -1

BotIds == {"b1", "b2", "b3", "b4", "b5", "b6", "b7", "b8"}

\* A bots row as the configuration page inserts it.
BotRow(id, user, test) ==
  [id |-> id, user_id |-> user, name |-> "bot-" \o id, symbol |-> Str("BTCUSDT"),
   default_side |-> Str("Buy"), default_order_type |-> Str("Market"),
   default_quantity |-> Num("1"), default_stop_loss |-> Num("95"),
   default_take_profit |-> Null, test_mode |-> test, status |-> "paused",
   trade_count |-> NoCount, last_trade_at |-> NoTime]

\* u1 and u2 each own a live and a simulated bot; u3 and u4 likewise. The
\* counters of b2 have been written before (3 trades, the last at time 0), b4
\* counts 0, the other bots have never traded (NULL).
InitBots ==
  [id \in BotIds |->
     CASE id = "b1" -> BotRow(id, "u1", FALSE)
       [] id = "b2" -> [BotRow(id, "u2", FALSE) EXCEPT !.trade_count = 3,
                                                       !.last_trade_at = 0]
       [] id = "b3" -> BotRow(id, "u1", TRUE)
       [] id = "b4" -> [BotRow(id, "u2", TRUE) EXCEPT !.trade_count = 0]
       [] id = "b5" -> BotRow(id, "u3", TRUE)
       [] id = "b6" -> BotRow(id, "u3", FALSE)
       [] id = "b7" -> BotRow(id, "u4", FALSE)
       [] OTHER -> BotRow(id, "u4", TRUE)]

\* A webhooks row as generateWebhook inserts it.
WebhookRow(token, bot, expires) ==
  [webhook_token |-> token, user_id |-> InitBots[bot].user_id, bot_id |-> bot,
   expires_at |-> expires, created_at |-> 0]

\* One lasting token per bot, and two older tokens of b3 that expire at 0 and 1.
InitWebhooks ==
  {WebhookRow("tok-" \o b, b, MaxTime + 1) : b \in BotIds}
    \cup {WebhookRow("tok-old", "b3", 0), WebhookRow("tok-short", "b3", 1)}

Tokens == {w.webhook_token : w \in InitWebhooks} \cup {"tok-unknown"}

\* An api_keys row. Its test_mode column is the credential-level flag.
KeyRow(user, account, test) ==
  [user_id |-> user, exchange |-> "bybit", api_key |-> "KEY-" \o account,
   api_secret |-> "SECRET-" \o account, test_mode |-> test]

\* u1 and u2 hold the same exchange account, u1's row with the flag off and
\* u2's with it on. u3 has no row. u4 has two rows.
InitApiKeys ==
  {KeyRow("u1", "A", FALSE), KeyRow("u2", "A", TRUE),
   KeyRow("u4", "B", FALSE), KeyRow("u4", "C", FALSE)}

\* ------------------------------------------------ handler-local state
NoRequest == [method |-> "", token |-> ""]
NoRow == [webhook_token |-> "", user_id |-> "", bot_id |-> ""]
NoBot == [id |-> ""]
NoKey == [user_id |-> ""]
NoParams == [apiKey |-> ""]
NoResult == [orderId |-> ""]
NoResponse == [status |-> 0]
NoBody == [empty |-> TRUE]

IdleState ==
  [pc |-> "idle", req |-> NoRequest, webhook |-> NoRow, bot |-> NoBot,
   alertData |-> EmptyAlert, apiKey |-> NoKey, orderParams |-> NoParams,
   orderResult |-> NoResult, calls |-> <<>>, res |-> NoResponse,
   log |-> <<>>, ops |-> <<>>, env |-> <<>>, wrote |-> <<>>]

\* The page has not been asked to delete its bot; no client call is under way.
IdlePage == [pc |-> "idle", id |-> ""]
NoCall == [pc |-> "idle"]

\* No webhook has been asked for yet.
NoHook == [by |-> ""]

Init ==
  /\ hook = NoHook
  /\ page = IdlePage
  /\ call = NoCall
  /\ now = 0
  /\ envOk \in BOOLEAN
  /\ webhooks = InitWebhooks
  /\ bots = InitBots
  /\ api_keys = InitApiKeys
  /\ trades = <<>>
  /\ inv = [p \in Invocations |-> IdleState]

\* ---------------------------------------------------------- responses
CorsHeaders ==
  {<<"Access-Control-Allow-Origin", "*">>,
   <<"Access-Control-Allow-Methods", "POST, OPTIONS">>,
   <<"Access-Control-Allow-Headers", "Content-Type, Authorization">>}

\* Headers that say only what the body is.
JsonHeadersBare == {<<"Content-Type", "application/json">>}

\* {...corsHeaders, "Content-Type": "application/json"}
JsonHeaders == CorsHeaders \cup {<<"Content-Type", "application/json">>}

Response(status, headers, body) ==
  [status |-> status, headers |-> headers, body |-> body]

\* new Response(JSON.stringify({ error: msg }), { status, ... })
ErrorResponse(status, msg) == Response(status, JsonHeaders, [error |-> msg])

\* console.log / console.error at source line `line`, printing the atoms `data`.
Log(s, line, data) == [s EXCEPT !.log = Append(@, [line |-> line, data |-> data])]

\* The handler returns `res`.
Return(s, res) == [s EXCEPT !.pc = "done", !.res = res]

\* An operation on a collaborator, and what the environment answered.
Did(s, op, answer) ==
  [s EXCEPT !.ops = Append(@, op), !.env = Append(@, answer)]

\* A write the store accepted: the table and the row (or the columns set).
Wrote(s, table, row) ==
  [s EXCEPT !.wrote = Append(@, [table |-> table, row |-> row])]

\* A catch that logs and rethrows: the invocation ends without a response.
CatchRethrowing(s, message) == [Log(s, 212, message) EXCEPT !.pc = "failed"]

\* catch (error) { console.error(...); return 500 {error: error.message} }
Catch(s, message) ==
  Return(Log(s, 212, message), ErrorResponse(500, message))

\* ------------------------------------------- processAlert: the request
\* The requests that arrive: a POST to each token's URL, a preflight, a GET.
Requests ==
  {[method |-> "POST", token |-> t] : t \in Tokens}
    \cup {[method |-> m, token |-> "tok-unknown"] : m \in Methods \ {"POST"}}

\* Lines 5-61: method checks, environment check, the token from the URL.
\* Invocations are numbered in the order they start.
Receive(p, r) ==
  /\ inv[p].pc = "idle"
  /\ \A q \in Invocations : q < p => inv[q].pc # "idle"
  /\ LET s == Log([inv[p] EXCEPT !.req = r], 6, <<>>)
     IN inv' = [inv EXCEPT ![p] =
          IF r.method = "OPTIONS"
            THEN Return(Log(s, 17, <<>>), Response(204, CorsHeaders, NoBody))
          ELSE IF r.method # "POST"
            THEN Return(Log(s, 26, <<r.method>>),
                        ErrorResponse(405, <<"Method not allowed">>))
          ELSE IF ~envOk
            THEN Return(Log(s, 44, <<>>),
                        ErrorResponse(500, <<"Server configuration error">>))
          ELSE Log([s EXCEPT !.pc = "verify"], 61, <<r.token>>)]
  /\ UNCHANGED <<hook, page, call, now, envOk, webhooks, bots, api_keys, trades>>

\* ------------------------------------ processAlert: step 1, the webhook
\* .limit(1) in place of .single(): the first row when any matches.
AnyRow(rows) == rows # {}

\* .single(): data only when exactly one row matches, an error otherwise.
SingleRow(rows) == Cardinality(rows) = 1

\* .gte in place of .gt: a token still accepted at the instant it expires.
LiveWebhooksInclusive(token, t) ==
  {w \in webhooks : w.webhook_token = token /\ w.expires_at >= t}

\* .eq('webhook_token', token).gt('expires_at', t)
LiveWebhooks(token, t) ==
  {w \in webhooks : w.webhook_token = token /\ w.expires_at > t}

\* select('*, bots(*)'): the row with its bot embedded, null when there is none.
Joined(w) ==
  [webhook_token |-> w.webhook_token, user_id |-> w.user_id, bot_id |-> w.bot_id,
   bots |-> IF w.bot_id \in DOMAIN bots THEN bots[w.bot_id] ELSE NoBot]

\* What the store held for the token when it was looked up.
TokenState(token, t, storeOk) ==
  IF ~storeOk THEN "error"
  ELSE IF \A w \in webhooks : w.webhook_token # token THEN "unknown"
  ELSE IF \A w \in webhooks : w.webhook_token = token => w.expires_at <= t
    THEN "expired"
  ELSE "valid"

\* A rejection that tells an expired token from an unknown one.
WebhookRejectedTelling(s, state) ==
  Return(Log(s, 73, <<"webhookError">>),
         IF state = "expired"
           THEN ErrorResponse(410, <<"Webhook expired">>)
           ELSE ErrorResponse(404, <<"Invalid or expired webhook">>))

\* The response to a token that did not resolve (lines 72-81).
WebhookRejected(s, state) ==
  Return(Log(s, 73, <<"webhookError">>),
         ErrorResponse(404, <<"Invalid or expired webhook">>))

\* JSON.stringify(alertData): the values of the fields it holds.
AlertText(a) ==
  <<ValText(a.symbol), ValText(a.side), ValText(a.orderType), ValText(a.quantity),
    ValText(a.price), ValText(a.stopLoss), ValText(a.takeProfit)>>

\* Lines 83-92: parse the body, take the joined bot.
ParseAlert(s, body) ==
  IF ~body.json
    THEN Catch(s, <<"Unexpected token in JSON">>)
  ELSE IF s.webhook.bots = NoBot
    THEN Catch(Log(s, 88, AlertText(body.data)),
               <<"Cannot read properties of null (reading 'name')">>)
  ELSE LET bot == s.webhook.bots
       IN Log(Log([s EXCEPT !.alertData = body.data, !.bot = bot, !.pc = "creds"],
                  88, AlertText(body.data)),
              92, <<bot.name, ValText(bot.symbol), ToString(bot.test_mode)>>)

\* Lines 63-92: look the token up (.single(): exactly one row), then read the body.
VerifyWebhook(p) ==
  /\ inv[p].pc = "verify"
  /\ \E storeOk \in BOOLEAN, body \in Bodies :
       LET s == inv[p]
           rows == LiveWebhooks(s.req.token, now)
           found == storeOk /\ SingleRow(rows)
           state == TokenState(s.req.token, now, storeOk)
           s1 == Did(s, "webhooks.select", state)
       IN inv' = [inv EXCEPT ![p] =
            IF ~found
              THEN WebhookRejected(s1, state)
              ELSE LET w == Joined(CHOOSE r \in rows : TRUE)
                   IN ParseAlert(Log([s1 EXCEPT !.webhook = w], 83,
                                     <<w.user_id, w.bot_id>>), body)]
  /\ UNCHANGED <<hook, page, call, now, envOk, webhooks, bots, api_keys, trades>>

\* ------------------------- processAlert: steps 2-4, credentials and order
\* .eq('user_id', user).eq('exchange', 'bybit')
KeyRows(user) == {k \in api_keys : k.user_id = user /\ k.exchange = "bybit"}

\* What the store held for the owner when the credential was looked up.
KeyState(rows, storeOk) ==
  IF ~storeOk THEN "error"
  ELSE IF rows = {} THEN "none"
  ELSE IF Cardinality(rows) > 1 THEN "many"
  ELSE "one"

\* A handler that goes on to the bot's counters without a credential.
CredentialsSkipped(s) == [s EXCEPT !.pc = "update"]

\* The response when the credential did not resolve (lines 103-112).
CredentialsRejected(s) ==
  Return(Log(s, 104, <<"apiKeyError">>),
         ErrorResponse(400, <<"API credentials not found">>))

\* The earlier revision's testnet: apiKey.test_mode || bot.test_mode
VenueMixed(bot, apiKey) == apiKey.test_mode \/ bot.test_mode

\* testnet: bot.test_mode (line 127)
Venue(bot, apiKey) == bot.test_mode

\* alertData.<field> || <bot default> (lines 120-126)
Pick(value, default) == Or(value, default)

\* Lines 117-128: the order parameters.
OrderParams(alertData, bot, apiKey) ==
  [apiKey |-> apiKey.api_key,
   apiSecret |-> apiKey.api_secret,
   symbol |-> Pick(alertData.symbol, bot.symbol),
   side |-> Pick(alertData.side, bot.default_side),
   orderType |-> Pick(alertData.orderType, bot.default_order_type),
   quantity |-> Pick(alertData.quantity, bot.default_quantity),
   price |-> alertData.price,
   stopLoss |-> Pick(alertData.stopLoss, bot.default_stop_loss),
   takeProfit |-> Pick(alertData.takeProfit, bot.default_take_profit),
   testnet |-> Venue(bot, apiKey)]

\* Lines 130-134: the parameters as logged, keys overwritten.
RedactedText(op) ==
  <<"REDACTED", "REDACTED", ValText(op.symbol), ValText(op.side),
    ValText(op.orderType), ValText(op.quantity), ValText(op.price),
    ValText(op.stopLoss), ValText(op.takeProfit), ToString(op.testnet)>>

\* JSON.stringify(orderResult) (line 157)
ResultText(r) ==
  <<r.orderId, ValText(r.symbol), ValText(r.side), ValText(r.orderType),
    ValText(r.qty), ValText(r.price), r.status>>

\* `test-${Date.now()}`
TestOrderId(t) == "test-" \o ToString(t)

\* Lines 142-150: the simulated order result.
SimulatedResult(op, t) ==
  [orderId |-> TestOrderId(t), symbol |-> op.symbol, side |-> op.side,
   orderType |-> op.orderType, qty |-> op.quantity,
   price |-> Or(op.price, Num("0")), status |-> "TEST_ORDER"]

\* A simulation decided by the credential row's flag.
SimulatesByCredential(s) == s.apiKey.test_mode

\* if (bot.test_mode): simulate, else go on to the exchange.
Simulates(s) == s.bot.test_mode

\* Lines 116-157 up to the next await: assemble, then simulate or call out.
Prepare(s) ==
  LET op == OrderParams(s.alertData, s.bot, s.apiKey)
      s1 == Log([s EXCEPT !.orderParams = op], 130, RedactedText(op))
  IN IF Simulates(s1)
       THEN LET r == SimulatedResult(op, now)
            IN Log(Did([s1 EXCEPT !.orderResult = r, !.pc = "insert"],
                       "Date.now", ToString(now)),
                   157, ResultText(r))
       ELSE [s1 EXCEPT !.pc = "execute"]

\* Lines 94-157: the credential of the webhook's owner (.single()), then Prepare.
LoadCredentials(p) ==
  /\ inv[p].pc = "creds"
  /\ \E storeOk \in BOOLEAN :
       LET s == inv[p]
           rows == KeyRows(s.webhook.user_id)
           found == storeOk /\ SingleRow(rows)
           s1 == Did(s, "api_keys.select", KeyState(rows, storeOk))
       IN inv' = [inv EXCEPT ![p] =
            IF ~found
              THEN CredentialsRejected(s1)
              ELSE Prepare([s1 EXCEPT !.apiKey = CHOOSE k \in rows : TRUE])]
  /\ UNCHANGED <<hook, page, call, now, envOk, webhooks, bots, api_keys, trades>>

\* ------------------------------------ the exchange client (utils/bybit.js)
MAINNET_URL == "https://api.bybit.com"
TESTNET_URL == "https://api-testnet.bybit.com"

\* The parameter names in lexicographic order, as Object.keys(..).sort() leaves them.
KeyOrder ==
  <<"api_key", "order_type", "price", "qty", "side", "stop_loss", "symbol",
    "take_profit", "time_in_force", "timestamp">>

InKeys(keys, k) == k \in keys

SortedKeys(keys) == SelectSeq(KeyOrder, LAMBDA k : InKeys(keys, k))

\* Lines 42-58: the order's parameters; price for limit orders, stops when truthy.
RequestParams(op) ==
  LET keys ==
        {"api_key", "symbol", "side", "order_type", "qty", "time_in_force"}
          \cup (IF op.orderType = Str("Limit") THEN {"price"} ELSE {})
          \cup (IF Truthy(op.stopLoss) THEN {"stop_loss"} ELSE {})
          \cup (IF Truthy(op.takeProfit) THEN {"take_profit"} ELSE {})
  IN [k \in keys |->
        CASE k = "api_key" -> Str(op.apiKey)
          [] k = "symbol" -> op.symbol
          [] k = "side" -> op.side
          [] k = "order_type" -> op.orderType
          [] k = "qty" -> op.quantity
          [] k = "time_in_force" -> Str("GoodTillCancel")
          [] k = "price" -> op.price
          [] k = "stop_loss" -> op.stopLoss
          [] OTHER -> op.takeProfit]

\* key=value& for each key in turn
RECURSIVE JoinPairs(_, _)
JoinPairs(keys, params) ==
  IF keys = <<>> THEN <<>>
  ELSE <<Head(keys), "=", ValText(params[Head(keys)]), "&">>
         \o JoinPairs(Tail(keys), params)

\* queryString.slice(0, -1)
DropLast(text) == SubSeq(text, 1, Len(text) - 1)

\* crypto.createHmac('sha256', secret).update(text).digest('hex')
Hmac(secret, text) == [alg |-> "sha256", key |-> secret, text |-> text]

\* Lines 10-24: timestamp first, then the sorted parameters; sign that string.
generateSignature(apiSecret, params, t) ==
  LET timestamp == ToString(t)
      queryString ==
        <<"timestamp", "=", timestamp, "&">>
          \o JoinPairs(SortedKeys(DOMAIN params), params)
  IN [timestamp |-> timestamp,
      signature |-> Hmac(apiSecret, DropLast(queryString))]

\* A client that takes the testnet's URL unless told to use the testnet.
BaseUrlSwapped(testnet) == IF testnet THEN MAINNET_URL ELSE TESTNET_URL

\* const baseUrl = testnet ? TESTNET_URL : MAINNET_URL (line 39)
BaseUrl(testnet) == IF testnet THEN TESTNET_URL ELSE MAINNET_URL

\* Lines 39-66: the request axios.post sends.
OrderRequest(op, t) ==
  LET params == RequestParams(op)
      signed == generateSignature(op.apiSecret, params, t)
  IN [testnet |-> op.testnet,
      url |-> BaseUrl(op.testnet) \o "/v2/private/order/create",
      params |-> [k \in DOMAIN params \cup {"timestamp"} |->
                    IF k = "timestamp" THEN Str(signed.timestamp) ELSE params[k]],
      sign |-> signed.signature]

\* What may come back: an accepted order, a vendor rejection (one quoting the
\* parameters it checked the signature against), or no usable HTTP response.
ExchangeReplies(request) ==
  {[kind |-> "response", ret_code |-> 0, ret_msg |-> <<"OK">>,
    order_id |-> "bybit-order", order_status |-> "Created"],
   [kind |-> "response", ret_code |-> 10001, ret_msg |-> <<"params error">>,
    order_id |-> "", order_status |-> ""],
   [kind |-> "response", ret_code |-> 10004,
    ret_msg |-> <<"error sign! origin_string[">>
                  \o DropLast(JoinPairs(SortedKeys(DOMAIN request.params),
                                        request.params))
                  \o <<"]">>,
    order_id |-> "", order_status |-> ""],
   [kind |-> "transport", ret_code |-> -1, ret_msg |-> <<"Network Error">>,
    order_id |-> "", order_status |-> ""]}

\* A client that returns a result with the vendor's message as its status
\* instead of throwing.
executeBybitOrderSwallowing(op, reply) ==
  [ok |-> TRUE, message |-> <<>>,
   result |-> [orderId |-> reply.order_id, symbol |-> op.symbol,
               side |-> op.side, orderType |-> op.orderType,
               qty |-> op.quantity, price |-> op.price,
               status |-> IF reply.ret_code = 0 THEN reply.order_status
                          ELSE "REJECTED"]]

\* Lines 65-84: the order result (ok), or the message of the error thrown.
executeBybitOrder(op, reply) ==
  IF reply.kind = "response" /\ reply.ret_code = 0
    THEN [ok |-> TRUE, message |-> <<>>,
          result |-> [orderId |-> reply.order_id, symbol |-> op.symbol,
                      side |-> op.side, orderType |-> op.orderType,
                      qty |-> op.quantity, price |-> op.price,
                      status |-> reply.order_status]]
  ELSE [ok |-> FALSE, result |-> NoResult,
        message |-> <<"Failed to execute order: ">>
                      \o (IF reply.kind = "response"
                            THEN <<"Bybit API error: ">> \o reply.ret_msg
                            ELSE reply.ret_msg)]

\* Lines 151-157 and 211-221: the call, and the handler's catch when it throws.
ExecuteOrder(p) ==
  /\ inv[p].pc = "execute"
  /\ LET s == inv[p]
         request == OrderRequest(s.orderParams, now)
     IN \E reply \in ExchangeReplies(request) :
          LET out == executeBybitOrder(s.orderParams, reply)
              s1 == Did(Did([s EXCEPT !.calls = Append(@, request)],
                            "Date.now", ToString(now)),
                        "exchange.post",
                        reply.kind \o ":" \o ToString(reply.ret_code))
          IN inv' = [inv EXCEPT ![p] =
               IF out.ok
                 THEN Log([s1 EXCEPT !.orderResult = out.result, !.pc = "insert"],
                          157, ResultText(out.result))
                 ELSE Catch(s1, out.message)]
  /\ UNCHANGED <<hook, page, call, now, envOk, webhooks, bots, api_keys, trades>>

\* ------------------------------ the V5 exchange client (utils/bybit.mjs)
MAINNET_URL_V5 == "https://api.byhkbit.com"
TESTNET_URL_V5 == "https://api-testnet.bybit.com"
DEFAULT_RECV_WINDOW == "15000"

\* The payload's keys in the order they are assigned (lines 64-74).
PayloadOrder ==
  <<"category", "symbol", "side", "orderType", "qty", "timeInForce", "price",
    "stopLoss", "takeProfit">>

\* A payload that carries the price whatever the order type.
PayloadV5Priced(op) ==
  [k \in {"category", "symbol", "side", "orderType", "qty", "timeInForce",
          "price"} |->
     CASE k = "category" -> Str("linear")
       [] k = "symbol" -> op.symbol
       [] k = "side" -> op.side
       [] k = "orderType" -> op.orderType
       [] k = "qty" -> Str(ValText(op.quantity))
       [] k = "timeInForce" -> Str("IOC")
       [] OTHER -> Str(ValText(op.price))]

\* Lines 63-74: the JSON payload; price for limit orders with a price, the
\* stops when they are not null or undefined.
PayloadV5(op) ==
  LET keys ==
        {"category", "symbol", "side", "orderType", "qty", "timeInForce"}
          \cup (IF op.orderType = Str("Limit") /\ ~Nullish(op.price)
                  THEN {"price"} ELSE {})
          \cup (IF ~Nullish(op.stopLoss) THEN {"stopLoss"} ELSE {})
          \cup (IF ~Nullish(op.takeProfit) THEN {"takeProfit"} ELSE {})
  IN [k \in keys |->
        CASE k = "category" -> Str("linear")
          [] k = "symbol" -> op.symbol
          [] k = "side" -> op.side
          [] k = "orderType" -> op.orderType
          [] k = "qty" -> Str(ValText(op.quantity))
          [] k = "timeInForce" ->
               IF op.orderType = Str("Market") THEN Str("IOC") ELSE Str("PostOnly")
          [] k = "price" -> Str(ValText(op.price))
          [] k = "stopLoss" -> Str(ValText(op.stopLoss))
          [] OTHER -> Str(ValText(op.takeProfit))]

\* JSON.stringify of one value: strings quoted, numbers and null bare.
JsonValue(v) == IF v[1] = "string" THEN "\"" \o v[2] \o "\"" ELSE ValText(v)

\* "key":value for each key in turn, separated by commas
RECURSIVE JsonMembers(_, _)
JsonMembers(keys, payload) ==
  IF keys = <<>> THEN ""
  ELSE "\"" \o Head(keys) \o "\":" \o JsonValue(payload[Head(keys)])
         \o (IF Tail(keys) = <<>> THEN "" ELSE ",")
         \o JsonMembers(Tail(keys), payload)

\* JSON.stringify(payload): the keys in assignment order, undefined ones left out.
BodyText(payload) ==
  "{" \o JsonMembers(SelectSeq(PayloadOrder,
                               LAMBDA k : /\ InKeys(DOMAIN payload, k)
                                          /\ payload[k] # Undefined),
                     payload)
      \o "}"

\* Lines 122-126: the positions query, keys sorted: key=value joined with '&'.
QueryOrder == <<"category", "symbol">>

RECURSIVE QueryText(_, _)
QueryText(keys, params) ==
  IF keys = <<>> THEN ""
  ELSE Head(keys) \o "=" \o ValText(params[Head(keys)])
         \o (IF Tail(keys) = <<>> THEN "" ELSE "&")
         \o QueryText(Tail(keys), params)

\* A signature over the timestamp, the key and the window, leaving the body out.
signPostBodyless(apiSecret, apiKey, recvWindow, timestamp, body) ==
  Hmac(apiSecret, timestamp \o apiKey \o recvWindow)

\* Lines 28-31: HMAC of timestamp + apiKey + recvWindow + body.
signPost(apiSecret, apiKey, recvWindow, timestamp, body) ==
  Hmac(apiSecret, timestamp \o apiKey \o recvWindow \o body)

\* Lines 37-40: HMAC of timestamp + apiKey + recvWindow + queryString.
signGet(apiSecret, apiKey, recvWindow, timestamp, queryString) ==
  Hmac(apiSecret, timestamp \o apiKey \o recvWindow \o queryString)

\* How far the exchange's clock may be ahead of the local one.
Skews == {0, 5}

\* The venue's base URL (lines 16, 60, 117).
BaseUrlV5(testnet) == IF testnet THEN TESTNET_URL_V5 ELSE MAINNET_URL_V5

\* Line 16: the clock endpoint of the venue.
ClockUrl(testnet) == BaseUrlV5(testnet) \o "/v5/market/time"

\* What GET /v5/market/time may answer (lines 15-22).
TimeReplies(t) ==
  {[kind |-> "response", retCode |-> 0, retMsg |-> <<"OK">>,
    time |-> ToString(t + d)] : d \in Skews}
    \cup
  {[kind |-> "response", retCode |-> 10016, retMsg |-> <<"Server error">>,
    time |-> ""],
   [kind |-> "transport", retCode |-> -1, retMsg |-> <<"Network Error">>,
    time |-> ""]}

\* What POST /v5/order/create may answer (line 89).
OrderRepliesV5 ==
  {[kind |-> "response", retCode |-> 0, retMsg |-> <<"OK">>,
    orderId |-> "bybit-order", orderStatus |-> "New"],
   [kind |-> "response", retCode |-> 10001, retMsg |-> <<"params error">>,
    orderId |-> "", orderStatus |-> ""],
   [kind |-> "transport", retCode |-> -1, retMsg |-> <<"Network Error">>,
    orderId |-> "", orderStatus |-> ""]}

\* An error as thrown: its class name and its message.
Thrown(name, message) == [name |-> name, message |-> message]
NoError == Thrown("", <<>>)
NoSent == [url |-> ""]
NoFetch == [url |-> ""]

\* What GET /v5/position/list may answer (line 139).
PositionRepliesV5 ==
  {[kind |-> "response", retCode |-> 0, retMsg |-> <<"OK">>,
    result |-> <<"position">>],
   [kind |-> "response", retCode |-> 10001, retMsg |-> <<"params error">>,
    result |-> <<>>],
   [kind |-> "transport", retCode |-> -1, retMsg |-> <<"Network Error">>,
    result |-> <<>>]}

\* A timestamp read from the local clock, whatever the exchange answered.
getLocalTimestamp(reply) ==
  [ok |-> TRUE, time |-> ToString(now), error |-> NoError]

\* Lines 15-22: the server's time, or the error thrown.
getServerTimestamp(reply) ==
  IF reply.kind = "transport"
    THEN [ok |-> FALSE, time |-> "", error |-> Thrown("AxiosError", reply.retMsg)]
  ELSE IF reply.retCode # 0
    THEN [ok |-> FALSE, time |-> "",
          error |-> Thrown("Error", <<"Failed to fetch server time: ">>
                                      \o reply.retMsg)]
  ELSE [ok |-> TRUE, time |-> reply.time, error |-> NoError]

\* Lines 76-89: the request axios.post sends.
OrderRequestV5(op, timestamp) ==
  LET payload == PayloadV5(op)
      bodyStr == BodyText(payload)
      signature == signPost(op.apiSecret, op.apiKey, DEFAULT_RECV_WINDOW,
                            timestamp, bodyStr)
  IN [method |-> "POST",
      url |-> BaseUrlV5(op.testnet) \o "/v5/order/create",
      testnet |-> op.testnet,
      params |-> payload,
      body |-> bodyStr,
      headers |-> [h \in {"Content-Type", "X-BAPI-API-KEY", "X-BAPI-TIMESTAMP",
                          "X-BAPI-RECV-WINDOW", "X-BAPI-SIGN"} |->
                     CASE h = "Content-Type" -> "application/json"
                       [] h = "X-BAPI-API-KEY" -> op.apiKey
                       [] h = "X-BAPI-TIMESTAMP" -> timestamp
                       [] h = "X-BAPI-RECV-WINDOW" -> DEFAULT_RECV_WINDOW
                       [] OTHER -> signature],
      apiKey |-> op.apiKey,
      timestamp |-> timestamp,
      recvWindow |-> DEFAULT_RECV_WINDOW,
      sign |-> signature]

\* Lines 46-104: the order result, or the error thrown (axios's own error when
\* there is no usable response: nothing here catches it).
executeBybitOrderV5(op, timeReply, reply) ==
  LET clock == getServerTimestamp(timeReply)
  IN IF ~clock.ok
       THEN [ok |-> FALSE, result |-> NoResult, error |-> clock.error,
             sent |-> NoSent]
     ELSE LET request == OrderRequestV5(op, clock.time)
          IN IF reply.kind = "transport"
               THEN [ok |-> FALSE, result |-> NoResult, sent |-> request,
                     error |-> Thrown("AxiosError", reply.retMsg)]
             ELSE IF reply.retCode # 0
               THEN [ok |-> FALSE, result |-> NoResult, sent |-> request,
                     error |-> Thrown("Error",
                                      <<"Bybit API error ", ToString(reply.retCode),
                                        ": ">> \o reply.retMsg)]
             ELSE [ok |-> TRUE, error |-> NoError, sent |-> request,
                   result |-> [orderId |-> reply.orderId, symbol |-> op.symbol,
                               side |-> op.side, orderType |-> op.orderType,
                               qty |-> op.quantity, price |-> Or(op.price, Null),
                               status |-> reply.orderStatus]]

\* Lines 122-139: the request axios.get sends.
PositionsRequestV5(op, timestamp) ==
  LET params == [category |-> Str("linear"), symbol |-> op.symbol]
      queryString == QueryText(QueryOrder, params)
      signature == signGet(op.apiSecret, op.apiKey, DEFAULT_RECV_WINDOW,
                           timestamp, queryString)
  IN [method |-> "GET",
      url |-> BaseUrlV5(op.testnet) \o "/v5/position/list" \o "?" \o queryString,
      testnet |-> op.testnet,
      params |-> params,
      query |-> queryString,
      headers |-> [h \in {"X-BAPI-API-KEY", "X-BAPI-TIMESTAMP",
                          "X-BAPI-RECV-WINDOW", "X-BAPI-SIGN"} |->
                     CASE h = "X-BAPI-API-KEY" -> op.apiKey
                       [] h = "X-BAPI-TIMESTAMP" -> timestamp
                       [] h = "X-BAPI-RECV-WINDOW" -> DEFAULT_RECV_WINDOW
                       [] OTHER -> signature],
      apiKey |-> op.apiKey,
      timestamp |-> timestamp,
      recvWindow |-> DEFAULT_RECV_WINDOW,
      sign |-> signature]

\* Lines 110-145: the positions, or the error thrown.
getBybitPositionsV5(op, timeReply, reply) ==
  LET clock == getServerTimestamp(timeReply)
  IN IF ~clock.ok
       THEN [ok |-> FALSE, result |-> NoResult, error |-> clock.error,
             sent |-> NoSent]
     ELSE LET request == PositionsRequestV5(op, clock.time)
          IN IF reply.kind = "transport"
               THEN [ok |-> FALSE, result |-> NoResult, sent |-> request,
                     error |-> Thrown("AxiosError", reply.retMsg)]
             ELSE IF reply.retCode # 0
               THEN [ok |-> FALSE, result |-> NoResult, sent |-> request,
                     error |-> Thrown("Error",
                                      <<"Bybit API error ", ToString(reply.retCode),
                                        ": ">> \o reply.retMsg)]
             ELSE [ok |-> TRUE, error |-> NoError, sent |-> request,
                   result |-> reply.result]

\* ------------------------------------- a client called on its own
\* The arguments of a call: the order type, the price and the stops absent,
\* null, zero or set, and a time-in-force the caller may add.
CallParams ==
  [apiKey : {"KEY-A"}, apiSecret : {"SECRET-A"},
   symbol : {Str("BTCUSDT"), Str("ETHUSDT")},
   side : {Str("Buy")}, orderType : {Str("Market"), Str("Limit")},
   quantity : {Num("1")}, price : {Undefined, Null, Num("0"), Num("100")},
   stopLoss : {Undefined, Null, Num("0"), Num("95")},
   takeProfit : {Undefined, Num("120")}, testnet : BOOLEAN,
   timeInForce : {Undefined, Str("GTC")}]

ClientInit ==
  /\ hook = NoHook
  /\ page = IdlePage
  /\ call \in [pc : {"ready"}, op : CallParams]
  /\ now = 0
  /\ envOk = TRUE
  /\ webhooks = InitWebhooks
  /\ bots = InitBots
  /\ api_keys = InitApiKeys
  /\ trades = <<>>
  /\ inv = [p \in Invocations |-> IdleState]

\* ------------------------------------------------------------ the clock
Tick ==
  /\ now < MaxTime
  /\ now' = now + 1
  /\ UNCHANGED <<hook, page, call, envOk, webhooks, bots, api_keys, trades, inv>>

\* utils/bybit.js executeBybitOrder(op): the request, the reply, the outcome.
CallLegacy ==
  /\ call.pc = "ready"
  /\ LET request == OrderRequest(call.op, now)
     IN \E reply \in ExchangeReplies(request) :
          LET out == executeBybitOrder(call.op, reply)
          IN call' = [pc |-> "done", client |-> "bybit.js",
                      fn |-> "executeBybitOrder", op |-> call.op, at |-> now,
                      fetched |-> NoFetch, sent |-> request,
                      reply |-> [kind |-> reply.kind, code |-> reply.ret_code,
                                 message |-> reply.ret_msg],
                      ok |-> out.ok, result |-> out.result,
                      error |-> IF out.ok THEN NoError
                                ELSE Thrown("Error", out.message)]
  /\ UNCHANGED <<hook, page, now, envOk, webhooks, bots, api_keys, trades, inv>>

\* What the call knows of its clock request: the URL asked and the answer.
Fetched(testnet, timeReply) ==
  [url |-> ClockUrl(testnet), kind |-> timeReply.kind,
   code |-> timeReply.retCode, time |-> timeReply.time]

\* The outcome of a V5 call: the answer that ended it and what it produced.
EndV5(fn, timeReply, reply, out) ==
  [pc |-> "done", client |-> "bybit.mjs", fn |-> fn, op |-> call.op,
   at |-> now, fetched |-> Fetched(call.op.testnet, timeReply),
   sent |-> out.sent,
   reply |-> IF out.sent = NoSent
               THEN [kind |-> timeReply.kind, code |-> timeReply.retCode,
                     message |-> timeReply.retMsg]
               ELSE [kind |-> reply.kind, code |-> reply.retCode,
                     message |-> reply.retMsg],
   ok |-> out.ok, result |-> out.result, error |-> out.error]

\* utils/bybit.mjs executeBybitOrder(op): the server time, then the order.
CallV5 ==
  /\ call.pc = "ready"
  /\ \E timeReply \in TimeReplies(now), reply \in OrderRepliesV5 :
       call' = EndV5("executeBybitOrder", timeReply, reply,
                     executeBybitOrderV5(call.op, timeReply, reply))
  /\ UNCHANGED <<hook, page, now, envOk, webhooks, bots, api_keys, trades, inv>>

\* utils/bybit.mjs getBybitPositions(op): the server time, then the query.
CallPositions ==
  /\ call.pc = "ready"
  /\ \E timeReply \in TimeReplies(now), reply \in PositionRepliesV5 :
       call' = EndV5("getBybitPositions", timeReply, reply,
                     getBybitPositionsV5(call.op, timeReply, reply))
  /\ UNCHANGED <<hook, page, now, envOk, webhooks, bots, api_keys, trades, inv>>

ClientNext == CallLegacy \/ CallV5 \/ CallPositions \/ Tick

ClientSpec == ClientInit /\ [][ClientNext]_vars

\* ------------------------------- processAlert: steps 5-6 and the response
\* A row whose status column holds the bot's status, not the order's.
TradeRowOfBotStatus(s, t) ==
  [user_id |-> s.webhook.user_id, bot_id |-> s.webhook.bot_id,
   symbol |-> s.orderResult.symbol, side |-> s.orderResult.side,
   order_type |-> s.orderResult.orderType, quantity |-> s.orderResult.qty,
   price |-> s.orderResult.price, order_id |-> s.orderResult.orderId,
   status |-> s.bot.status, created_at |-> t]

\* Lines 163-174: the row inserted into trades.
TradeRow(s, t) ==
  [user_id |-> s.webhook.user_id, bot_id |-> s.webhook.bot_id,
   symbol |-> s.orderResult.symbol, side |-> s.orderResult.side,
   order_type |-> s.orderResult.orderType, quantity |-> s.orderResult.qty,
   price |-> s.orderResult.price, order_id |-> s.orderResult.orderId,
   status |-> s.orderResult.status, created_at |-> t]

\* An insert whose error is thrown, reaching the handler's catch.
TradeInsertedOrThrown(s, storeOk) ==
  IF storeOk THEN [s EXCEPT !.pc = "update"] ELSE Catch(s, <<"tradeError">>)

\* Lines 176-180: the insert's error is logged; either way go on to step 6.
TradeInserted(s, storeOk) ==
  [(IF storeOk THEN s ELSE Log(s, 177, <<"tradeError">>)) EXCEPT !.pc = "update"]

\* An upsert that overwrites the latest row of the table.
InsertReplacing(table, row) ==
  IF table = <<>> THEN <<row>> ELSE [table EXCEPT ![Len(table)] = row]

\* .from('trades').insert(row): one more row, the others untouched.
Insert(table, row) == Append(table, row)

\* Lines 159-180: insert the trade.
InsertTrade(p) ==
  /\ inv[p].pc = "insert"
  /\ \E storeOk \in BOOLEAN :
       LET row == TradeRow(inv[p], now)
           s == Did(inv[p], "trades.insert", IF storeOk THEN "ok" ELSE "error")
       IN /\ trades' = IF storeOk THEN Insert(trades, row) ELSE trades
          /\ inv' = [inv EXCEPT ![p] =
               TradeInserted(IF storeOk THEN Wrote(s, "trades", row) ELSE s,
                             storeOk)]
  /\ UNCHANGED <<hook, page, call, now, envOk, webhooks, bots, api_keys>>

\* A counter that adds 2 for every trade.
NextTradeCountOver(bot) ==
  IF bot.trade_count # NoCount /\ bot.trade_count # 0
    THEN bot.trade_count + 2
    ELSE 2

\* trade_count: bot.trade_count ? bot.trade_count + 1 : 1 (line 188)
NextTradeCount(bot) ==
  IF bot.trade_count # NoCount /\ bot.trade_count # 0
    THEN bot.trade_count + 1
    ELSE 1

\* A response whose testMode is read from the credential row.
SuccessResponseByCredential(s) ==
  Response(200, JsonHeaders,
           [success |-> TRUE, orderId |-> s.orderResult.orderId,
            status |-> s.orderResult.status, testMode |-> s.apiKey.test_mode])

\* Lines 199-210: the response after step 4 succeeded.
SuccessResponse(s) ==
  Response(200, JsonHeaders,
           [success |-> TRUE, orderId |-> s.orderResult.orderId,
            status |-> s.orderResult.status, testMode |-> s.bot.test_mode])

\* Lines 192-210: the update's error is logged; either way respond 200.
BotUpdated(s, storeOk) ==
  Return(IF storeOk THEN s ELSE Log(s, 193, <<"botUpdateError">>),
         SuccessResponse(s))

\* Counters whose last_trade_at stays as it was read with the bot.
BotCountersKeepingTime(s, t) ==
  [id |-> s.webhook.bot_id, last_trade_at |-> s.bot.last_trade_at,
   trade_count |-> NextTradeCount(s.bot)]

\* Lines 186-189: the columns the update sets, for the row .eq('id', bot.id).
BotCounters(s, t) ==
  [id |-> s.webhook.bot_id, last_trade_at |-> t,
   trade_count |-> NextTradeCount(s.bot)]

\* An update without its .eq('id', ...) filter: every row is set.
UpdateEveryRow(rows, id, set) ==
  [b \in DOMAIN rows |->
     [rows[b] EXCEPT !.last_trade_at = set.last_trade_at,
                     !.trade_count = set.trade_count]]

\* .from('bots').update({last_trade_at, trade_count}).eq('id', id)
UpdateRow(rows, id, set) ==
  [rows EXCEPT ![id].last_trade_at = set.last_trade_at,
               ![id].trade_count = set.trade_count]

\* Lines 182-210: update the bot's counters from the bot read in step 1, then
\* respond.
UpdateBot(p) ==
  /\ inv[p].pc = "update"
  /\ \E storeOk \in BOOLEAN :
       LET s == Did(inv[p], "bots.update", IF storeOk THEN "ok" ELSE "error")
           id == s.webhook.bot_id
           hit == storeOk /\ id \in DOMAIN bots
           set == BotCounters(s, now)
       IN /\ bots' = IF hit THEN UpdateRow(bots, id, set) ELSE bots
          /\ inv' = [inv EXCEPT ![p] =
               BotUpdated(IF hit THEN Wrote(s, "bots", set) ELSE s, storeOk)]
  /\ UNCHANGED <<hook, page, call, now, envOk, webhooks, api_keys, trades>>

Next ==
  \/ \E p \in Invocations, r \in Requests : Receive(p, r)
  \/ \E p \in Invocations : VerifyWebhook(p)
  \/ \E p \in Invocations : LoadCredentials(p)
  \/ \E p \in Invocations : ExecuteOrder(p)
  \/ \E p \in Invocations : InsertTrade(p)
  \/ \E p \in Invocations : UpdateBot(p)
  \/ Tick

Spec == Init /\ [][Next]_vars

\* ------------------------------------------- every await resolves
\* The next step of invocation p, whichever await it is at.
Step(p) ==
  \/ VerifyWebhook(p)
  \/ LoadCredentials(p)
  \/ ExecuteOrder(p)
  \/ InsertTrade(p)
  \/ UpdateBot(p)

\* A request that arrives while no other invocation has started.
ReceiveOnly(p, r) ==
  /\ \A q \in Invocations \ {p} : inv[q].pc = "idle"
  /\ Receive(p, r)

OneNext ==
  \/ \E p \in Invocations, r \in Requests : ReceiveOnly(p, r)
  \/ \E p \in Invocations : VerifyWebhook(p)
  \/ \E p \in Invocations : LoadCredentials(p)
  \/ \E p \in Invocations : ExecuteOrder(p)
  \/ \E p \in Invocations : InsertTrade(p)
  \/ \E p \in Invocations : UpdateBot(p)
  \/ Tick

\* One invocation on its own. The store and the exchange answer every call
\* (with a result or an error), so an invocation that has started is not left
\* waiting for ever.
LiveSpec ==
  Init /\ [][OneNext]_vars /\ \A p \in Invocations : WF_vars(Step(p))

\* ------------------------------- the configuration page's deleteBot
\* The user signed in to the page.
PageUser == "u2"

\* Lines 261-265: delete the bot's webhooks; the outcome is not looked at.
DeleteWebhooks(id) ==
  /\ page.pc = "idle"
  /\ id \in DOMAIN bots
  /\ bots[id].user_id = PageUser
  /\ \E storeOk \in BOOLEAN :
       webhooks' =
         IF storeOk
           THEN {w \in webhooks : ~(w.bot_id = id /\ w.user_id = PageUser)}
           ELSE webhooks
  /\ page' = [pc |-> "bot", id |-> id]
  /\ UNCHANGED <<hook, call, now, envOk, bots, api_keys, trades, inv>>

\* Lines 267-281: delete the bot row; leave the page, or report the failure.
DeleteBotRow ==
  /\ page.pc = "bot"
  /\ \E storeOk \in BOOLEAN :
       /\ bots' =
            IF storeOk /\ page.id \in DOMAIN bots /\ bots[page.id].user_id = PageUser
              THEN [b \in DOMAIN bots \ {page.id} |-> bots[b]]
              ELSE bots
       /\ page' = [pc |-> IF storeOk THEN "left" ELSE "failed", id |-> page.id]
  /\ UNCHANGED <<hook, call, now, envOk, webhooks, api_keys, trades, inv>>

\* One invocation of processAlert while the page deletes a bot.
PageNext ==
  \/ \E p \in Invocations, r \in Requests : ReceiveOnly(p, r)
  \/ \E p \in Invocations : VerifyWebhook(p)
  \/ \E p \in Invocations : LoadCredentials(p)
  \/ \E p \in Invocations : ExecuteOrder(p)
  \/ \E p \in Invocations : InsertTrade(p)
  \/ \E p \in Invocations : UpdateBot(p)
  \/ \E id \in BotIds : DeleteWebhooks(id)
  \/ DeleteBotRow
  \/ Tick

PageSpec == Init /\ [][PageNext]_vars

\* ------------------------------------------- webhook URLs are created
\* The webhook rows the program may add in one run.
MaxNew == 2

\* Thirty days: longer than the clock runs here.
Lifetime == MaxTime + 1

Min(a, b) == IF a < b THEN a ELSE b

\* String.prototype.substring(from, to) for 0 <= from <= to.
Substring(text, from, to) == SubSeq(text, from + 1, Min(to, Len(text)))

\* nanoid(32): 32 characters of the URL alphabet from the system's random source.
Nanoid32 ==
  {"V1StGXR8_Z5jdHi6B-myTqLkPw3nE0aZ", "hQ7x-2LmRt0_pYcNs9KfJd4WuAvB6eGz"}

\* Math.random().toString(36): "0" for 0, else "0." and the base-36 digits.
RandomTexts == {"0", "0.i", "0.4fzyo82mvyr", "0.000kq9x2m7pd1c4f8"}

\* part_002's generateRandomToken for two readings of Math.random().
generateRandomToken(r1, r2) == Substring(r1, 2, 15) \o Substring(r2, 2, 15)

\* `${baseUrl}/.netlify/functions/processAlert/${token}`
WebhookUrl(token) == "/.netlify/functions/processAlert/" \o token

\* The row both callers insert.
NewWebhook(user, bot, token, t) ==
  [webhook_token |-> token, user_id |-> user, bot_id |-> bot,
   expires_at |-> t + Lifetime, created_at |-> t]

\* The bodies posted to the function: userId and botId, "" when absent.
HookBodies ==
  {[json |-> TRUE, userId |-> u, botId |-> b] :
     u \in {"", PageUser}, b \in {"", "b2", "b4"}}
    \cup {[json |-> FALSE, userId |-> "", botId |-> ""]}

\* functions/generateWebhook.js, the whole handler.
GenerateWebhook(method, body) ==
  /\ Cardinality(webhooks) < Cardinality(InitWebhooks) + MaxNew
  /\ \E token \in Nanoid32, storeOk \in BOOLEAN :
       LET row == NewWebhook(body.userId, body.botId, token, now)
           stored ==
             /\ method = "POST" /\ envOk /\ body.json
             /\ body.userId # "" /\ body.botId # "" /\ storeOk
           res ==
             IF method = "OPTIONS" THEN Response(204, CorsHeaders, NoBody)
             ELSE IF method # "POST"
               THEN ErrorResponse(405, <<"Method not allowed">>)
             ELSE IF ~envOk
               THEN ErrorResponse(500, <<"Server configuration error">>)
             ELSE IF ~body.json
               THEN ErrorResponse(500, <<"Unexpected token in JSON">>)
             ELSE IF body.userId = "" \/ body.botId = ""
               THEN ErrorResponse(400, <<"Missing required fields">>)
             ELSE IF ~storeOk
               THEN ErrorResponse(500, <<"insert failed">>)
             ELSE Response(200, JsonHeaders,
                           [webhookUrl |-> WebhookUrl(token),
                            expiresAt |-> now + Lifetime])
       IN /\ webhooks' = IF stored THEN webhooks \cup {row} ELSE webhooks
          /\ hook' = [by |-> "function", res |-> res]
  /\ UNCHANGED <<page, call, now, envOk, bots, api_keys, trades, inv>>

\* .eq('bot_id', id).gt('expires_at', now).order('created_at', desc).limit(1)
LatestWebhooks(id, t) ==
  {w \in webhooks :
     /\ w.bot_id = id /\ w.expires_at > t
     /\ \A v \in webhooks :
          v.bot_id = id /\ v.expires_at > t => v.created_at <= w.created_at}

\* part_002's generateWebhook on the page of bot `id`: show the bot's latest
\* valid webhook, or insert a new one when the lookup gave none.
PageGenerateWebhook(id) ==
  /\ Cardinality(webhooks) < Cardinality(InitWebhooks) + MaxNew
  /\ id \in DOMAIN bots
  /\ bots[id].user_id = PageUser
  /\ \E lookupOk \in BOOLEAN :
       IF lookupOk /\ LatestWebhooks(id, now) # {}
         THEN \E w \in LatestWebhooks(id, now) :
                /\ hook' = [by |-> "page", url |-> WebhookUrl(w.webhook_token)]
                /\ UNCHANGED webhooks
         ELSE \E r1 \in RandomTexts, r2 \in RandomTexts, storeOk \in BOOLEAN :
                LET token == generateRandomToken(r1, r2)
                IN IF storeOk
                     THEN /\ webhooks' =
                               webhooks \cup {NewWebhook(PageUser, id, token, now)}
                          /\ hook' = [by |-> "page", url |-> WebhookUrl(token)]
                     ELSE /\ hook' = [by |-> "page", url |-> ""]
                          /\ UNCHANGED webhooks
  /\ UNCHANGED <<page, call, now, envOk, bots, api_keys, trades, inv>>

HookNext ==
  \/ \E m \in Methods, b \in HookBodies : GenerateWebhook(m, b)
  \/ \E id \in BotIds : PageGenerateWebhook(id)
  \/ Tick

HookSpec == Init /\ [][HookNext]_vars

\* --------------------------------------- alerts one after another
\* A request that arrives while no other invocation is in flight.
ReceiveAlone(p, r) ==
  /\ \A q \in Invocations \ {p} : inv[q].pc \in {"idle", "done"}
  /\ Receive(p, r)

SeqNext ==
  \/ \E p \in Invocations, r \in Requests : ReceiveAlone(p, r)
  \/ \E p \in Invocations : VerifyWebhook(p)
  \/ \E p \in Invocations : LoadCredentials(p)
  \/ \E p \in Invocations : ExecuteOrder(p)
  \/ \E p \in Invocations : InsertTrade(p)
  \/ \E p \in Invocations : UpdateBot(p)
  \/ Tick

SeqSpec == Init /\ [][SeqNext]_vars

\* --------------------------- the configuration page's toggleBotStatus
\* part_002 lines 235-254: flip the status of the bot shown between 'active'
\* and 'paused'. The page's copy of the status is the stored one: it loaded it
\* (line 91) and nothing else writes the column.
ToggleBotStatus(id) ==
  /\ id \in DOMAIN bots
  /\ bots[id].user_id = PageUser
  /\ \E storeOk \in BOOLEAN :
       LET newStatus == IF bots[id].status = "active" THEN "paused" ELSE "active"
       IN bots' = IF storeOk THEN [bots EXCEPT ![id].status = newStatus] ELSE bots
  /\ UNCHANGED <<hook, page, call, now, envOk, webhooks, api_keys, trades, inv>>

\* Alerts for the signed-in user's bots.
StatusRequests == {[method |-> "POST", token |-> "tok-" \o id] : id \in {"b2", "b4"}}

\* Two invocations for those bots while their owner toggles the status.
StatusNext ==
  \/ \E p \in Invocations, r \in StatusRequests : Receive(p, r)
  \/ \E p \in Invocations : VerifyWebhook(p)
  \/ \E p \in Invocations : LoadCredentials(p)
  \/ \E p \in Invocations : ExecuteOrder(p)
  \/ \E p \in Invocations : InsertTrade(p)
  \/ \E p \in Invocations : UpdateBot(p)
  \/ \E id \in BotIds : ToggleBotStatus(id)

StatusSpec == Init /\ [][StatusNext]_vars

\* ------------------------------------- three alerts for the same bot
\* Three invocations, which may overlap.
Crowd == {1, 2, 3}

\* Each of them is a POST to the URL of bot b2's lasting token.
CrowdRequest == [method |-> "POST", token |-> "tok-b2"]

CrowdInit ==
  /\ hook = NoHook
  /\ page = IdlePage
  /\ call = NoCall
  /\ now = 0
  /\ envOk \in BOOLEAN
  /\ webhooks = InitWebhooks
  /\ bots = InitBots
  /\ api_keys = InitApiKeys
  /\ trades = <<>>
  /\ inv = [p \in Crowd |-> IdleState]

CrowdNext ==
  \/ \E p \in Crowd : Receive(p, CrowdRequest)
  \/ \E p \in Crowd : VerifyWebhook(p)
  \/ \E p \in Crowd : LoadCredentials(p)
  \/ \E p \in Crowd : ExecuteOrder(p)
  \/ \E p \in Crowd : InsertTrade(p)
  \/ \E p \in Crowd : UpdateBot(p)

CrowdSpec == CrowdInit /\ [][CrowdNext]_vars

\* ================================================================ claims
\* How often `op` occurs among the operations an invocation performed.
Count(ops, op) == Cardinality({i \in 1..Len(ops) : ops[i] = op})

\* The answer the environment gave to the invocation's (first) `op`.
Answer(s, op) == s.env[CHOOSE i \in 1..Len(s.ops) : s.ops[i] = op]

Asked(s, op) == Count(s.ops, op) > 0

\* The rows the invocation wrote into `table`.
Rows(s, table) == SelectSeq(s.wrote, LAMBDA w : w.table = table)

\* C1: an alert whose token is not in the webhooks store, or whose webhook has
\* expires_at <= now (equality included), is answered 404 {error: 'Invalid or
\* expired webhook'} and the handler stops: no credential read, no exchange
\* call, no trade insert, no bot update. A token whose expires_at is strictly
\* greater than now is not rejected by this step.
C1_InvalidTokenStops ==
  \A p \in Invocations :
    LET s == inv[p]
    IN Asked(s, "webhooks.select") =>
         /\ Answer(s, "webhooks.select") \in {"unknown", "expired"} =>
              /\ s.pc = "done"
              /\ s.res = ErrorResponse(404, <<"Invalid or expired webhook">>)
              /\ s.ops = <<"webhooks.select">>
              /\ s.calls = <<>>
              /\ s.wrote = <<>>
         /\ Answer(s, "webhooks.select") = "valid" =>
              /\ s.webhook.webhook_token = s.req.token
              /\ s.res.status # 404

\* A token looked up at the very instant it expires (tok-short expires at 1,
\* and the clock never passes 1 before MaxTime is raised) was rejected, while
\* another invocation's lasting token passed.
C1_Witness ==
  /\ now = 1
  /\ \E p, q \in Invocations :
       /\ inv[p].req.token = "tok-short"
       /\ inv[p].env = <<"expired">>
       /\ inv[p].res.status = 404
       /\ Asked(inv[q], "webhooks.select")
       /\ Answer(inv[q], "webhooks.select") = "valid"
       /\ inv[q].pc = "done"
       /\ inv[q].res.status = 200

\* C4: when the webhook resolves but the credential lookup for (owner,
\* 'bybit') finds no row or more than one row, the answer is 400 {error: 'API
\* credentials not found'} and the handler stops, whatever bot.test_mode is: no
\* exchange call, no trade insert, no bot update.
C4_NoCredentialStops ==
  \A p \in Invocations :
    LET s == inv[p]
    IN Asked(s, "api_keys.select")
         /\ Answer(s, "api_keys.select") \in {"none", "many"} =>
           /\ s.pc = "done"
           /\ s.res = ErrorResponse(400, <<"API credentials not found">>)
           /\ s.ops = <<"webhooks.select", "api_keys.select">>
           /\ s.calls = <<>>
           /\ s.wrote = <<>>

\* One invocation found two credential rows for a live bot, another found
\* none for a simulated bot: both were answered 400.
C4_Witness ==
  \E p, q \in Invocations :
    /\ Asked(inv[p], "api_keys.select")
    /\ Answer(inv[p], "api_keys.select") = "many"
    /\ ~inv[p].bot.test_mode
    /\ inv[p].res.status = 400
    /\ Asked(inv[q], "api_keys.select")
    /\ Answer(inv[q], "api_keys.select") = "none"
    /\ inv[q].bot.test_mode
    /\ inv[q].res.status = 400

\* C8: the response to an unknown token and the response to an existing but
\* expired token are the same: same status, same headers, same body.
C8_RejectionsAlike ==
  \A p, q \in Invocations :
    /\ Asked(inv[p], "webhooks.select")
    /\ Asked(inv[q], "webhooks.select")
    /\ Answer(inv[p], "webhooks.select") = "unknown"
    /\ Answer(inv[q], "webhooks.select") = "expired"
    => inv[p].res = inv[q].res

\* One invocation was rejected for an unknown token, the other for an
\* expired one.
C8_Witness ==
  \E p, q \in Invocations :
    /\ inv[p].env = <<"unknown">>
    /\ inv[q].env = <<"expired">>
    /\ inv[p].res.status = 404
    /\ inv[q].res.status = 404

\* The invocation has an order result: step 4 (real or simulated) succeeded.
Executed(s) == s.orderResult # NoResult

\* The invocation's log has a line printed at source line `line`.
Logged(s, line) == \E i \in 1..Len(s.log) : s.log[i].line = line

\* The row carries the order result's id and status and the assembled
\* symbol, side, order type and quantity.
CarriesOrder(row, s) ==
  /\ row.order_id = s.orderResult.orderId
  /\ row.status = s.orderResult.status
  /\ row.symbol = s.orderParams.symbol
  /\ row.side = s.orderParams.side
  /\ row.order_type = s.orderParams.orderType
  /\ row.quantity = s.orderParams.quantity

\* In test mode: no exchange call, an order id 'test-<time>' and the status
\* 'TEST_ORDER'.
SimulatedOnly(s) ==
  /\ s.calls = <<>>
  /\ ~Asked(s, "exchange.post")
  /\ Executed(s) =>
       /\ \E t \in 0..now : s.orderResult.orderId = TestOrderId(t)
       /\ s.orderResult.status = "TEST_ORDER"

\* C2 (as amended): when bot.test_mode is true the exchange client is never
\* invoked; an order result with the id 'test-<time>' and the status
\* 'TEST_ORDER' is synthesized, and exactly one insert of a Trade row carrying
\* that id, that status and the assembled symbol, side, order type and
\* quantity is issued: the row is written when the store accepts the insert,
\* and no row is written when the store rejects it.
C2_TestModeSimulates ==
  \A p \in Invocations :
    LET s == inv[p]
    IN s.bot # NoBot /\ s.bot.test_mode =>
         /\ SimulatedOnly(s)
         /\ s.pc = "done" /\ Executed(s) =>
              /\ Count(s.ops, "trades.insert") = 1
              /\ Answer(s, "trades.insert") = "ok" =>
                   /\ Len(Rows(s, "trades")) = 1
                   /\ CarriesOrder(Rows(s, "trades")[1].row, s)
                   /\ \E i \in 1..Len(trades) : trades[i] = Rows(s, "trades")[1].row
              /\ Answer(s, "trades.insert") = "error" => Rows(s, "trades") = <<>>

\* C2 as stated: in test mode every processed alert writes exactly one Trade
\* row carrying the simulated order.
C2_AsStated ==
  \A p \in Invocations :
    LET s == inv[p]
    IN s.bot # NoBot /\ s.bot.test_mode =>
         /\ SimulatedOnly(s)
         /\ s.pc = "done" /\ Executed(s) =>
              /\ Len(Rows(s, "trades")) = 1
              /\ CarriesOrder(Rows(s, "trades")[1].row, s)

\* A simulated alert that carried payload fields was answered 200 and its row
\* was written.
C2_Witness ==
  \E p \in Invocations :
    /\ inv[p].bot # NoBot
    /\ inv[p].bot.test_mode
    /\ inv[p].alertData = MixedAlert
    /\ inv[p].res.status = 200
    /\ Len(Rows(inv[p], "trades")) = 1

\* C3: when bot.test_mode is false and the exchange call fails (vendor return
\* code other than 0, or no usable response), the alert ends with a 500
\* response, no Trade row is inserted, the bot's trade_count and last_trade_at
\* are not written, and the exchange is called at most once per alert.
C3_ExchangeFailureAborts ==
  /\ \A p \in Invocations :
       LET s == inv[p]
       IN /\ Len(s.calls) <= 1
          /\ Count(s.ops, "exchange.post") = Len(s.calls)
          /\ Asked(s, "exchange.post") /\ Answer(s, "exchange.post") # "response:0" =>
               /\ ~s.bot.test_mode
               /\ s.pc = "done"
               /\ s.res.status = 500
               /\ ~Asked(s, "trades.insert")
               /\ ~Asked(s, "bots.update")
               /\ s.wrote = <<>>
  /\ (\A p \in Invocations : inv[p].wrote = <<>>) => trades = <<>> /\ bots = InitBots

\* One alert failed on a vendor return code, another on the transport.
C3_Witness ==
  \E p, q \in Invocations :
    /\ Asked(inv[p], "exchange.post")
    /\ Answer(inv[p], "exchange.post") = "response:10001"
    /\ inv[p].res.status = 500
    /\ Asked(inv[q], "exchange.post")
    /\ Answer(inv[q], "exchange.post") = "transport:-1"
    /\ inv[q].res.status = 500

\* C5: once step 4 (real or simulated) has succeeded, a failure of the Trade
\* insert or of the bot update does not change the response: the caller gets
\* 200 {success: true, ...}; the failure is only logged; neither the order nor
\* the failed write is issued a second time, and nothing is reverted.
C5_PersistenceBestEffort ==
  \A p \in Invocations :
    LET s == inv[p]
    IN Executed(s) =>
         /\ s.pc \in {"insert", "update", "done"}
         /\ s.pc = "done" =>
              /\ s.res.status = 200
              /\ s.res.body.success
              /\ Count(s.ops, "trades.insert") = 1
              /\ Count(s.ops, "bots.update") = 1
         /\ Count(s.ops, "trades.insert") <= 1
         /\ Count(s.ops, "bots.update") <= 1
         /\ Len(s.calls) <= 1
         /\ ~Logged(s, 212)
         /\ Asked(s, "trades.insert") =>
              IF Answer(s, "trades.insert") = "error"
                THEN Logged(s, 177) /\ Rows(s, "trades") = <<>>
                ELSE ~Logged(s, 177) /\ Len(Rows(s, "trades")) = 1
         /\ Asked(s, "bots.update") =>
              IF Answer(s, "bots.update") = "error"
                THEN Logged(s, 193) /\ Rows(s, "bots") = <<>>
                ELSE ~Logged(s, 193) /\ Len(Rows(s, "bots")) = 1

\* A real order was placed, both the insert and the update failed, and the
\* answer was 200.
C5_Witness ==
  \E p \in Invocations :
    /\ Len(inv[p].calls) = 1
    /\ Asked(inv[p], "bots.update")
    /\ Answer(inv[p], "trades.insert") = "error"
    /\ Answer(inv[p], "bots.update") = "error"
    /\ inv[p].res.status = 200

\* C9: on a 200 response, orderId and status are those of the order result
\* of step 4 (the values written to the Trade row's order_id and status), and
\* testMode is bot.test_mode, whether or not steps 5 and 6 succeeded.
C9_ResponseReflectsOrder ==
  \A p \in Invocations :
    LET s == inv[p]
    IN s.pc = "done" /\ s.res.status = 200 =>
         /\ Executed(s)
         /\ s.res.body.orderId = s.orderResult.orderId
         /\ s.res.body.status = s.orderResult.status
         /\ s.res.body.testMode = s.bot.test_mode
         /\ s.res.body.status = (IF s.bot.test_mode THEN "TEST_ORDER" ELSE "Created")
         /\ \A i \in 1..Len(Rows(s, "trades")) :
              /\ Rows(s, "trades")[i].row.order_id = s.res.body.orderId
              /\ Rows(s, "trades")[i].row.status = s.res.body.status

\* Two real orders were answered alike, one with both writes accepted and one
\* with both writes rejected.
C9_Witness ==
  \E p, q \in Invocations :
    /\ inv[p].res.status = 200
    /\ inv[q].res.status = 200
    /\ Len(inv[p].calls) = 1
    /\ Len(inv[q].calls) = 1
    /\ Len(inv[p].wrote) = 2
    /\ inv[q].wrote = <<>>
    /\ inv[p].res = inv[q].res

\* What a bot row configures: everything but its identity, owner and counters.
BotConfig(b) ==
  [symbol |-> b.symbol, default_side |-> b.default_side,
   default_order_type |-> b.default_order_type,
   default_quantity |-> b.default_quantity,
   default_stop_loss |-> b.default_stop_loss,
   default_take_profit |-> b.default_take_profit,
   test_mode |-> b.test_mode, status |-> b.status]

\* Two runs that read a credential and whose inputs agree on everything but
\* the credential row's test_mode flag (and the owner the row belongs to): the
\* same method, payload, bot configuration, key and secret, the same answers
\* from the store and the exchange and the same clock readings.
SameButCredentialFlag(s, t) ==
  /\ s.apiKey # NoKey
  /\ t.apiKey # NoKey
  /\ s.apiKey.test_mode # t.apiKey.test_mode
  /\ s.apiKey.api_key = t.apiKey.api_key
  /\ s.apiKey.api_secret = t.apiKey.api_secret
  /\ s.req.method = t.req.method
  /\ s.alertData = t.alertData
  /\ BotConfig(s.bot) = BotConfig(t.bot)
  /\ s.env = t.env

\* The testnet flag and URL of each exchange call, in order.
Venues(s) == [i \in 1..Len(s.calls) |-> <<s.calls[i].testnet, s.calls[i].url>>]

\* C6: venue selection depends on bot.test_mode alone: two runs of
\* processAlert that differ only in the credential row's test_mode flag pass
\* the same testnet/mainnet choice to the exchange client, take the same
\* decision to simulate or execute, and give the same response.
C6_CredentialFlagIgnored ==
  \A p, q \in Invocations :
    SameButCredentialFlag(inv[p], inv[q]) =>
      /\ inv[p].orderParams.testnet = inv[q].orderParams.testnet
      /\ inv[p].orderParams.testnet = inv[p].bot.test_mode
      /\ Venues(inv[p]) = Venues(inv[q])
      /\ Asked(inv[p], "exchange.post") = Asked(inv[q], "exchange.post")
      /\ inv[p].orderResult = inv[q].orderResult
      /\ inv[p].pc = inv[q].pc
      /\ inv[p].res = inv[q].res

\* Two real orders that differ only in the credential flag were both placed
\* and answered 200.
C6_Witness ==
  \E p, q \in Invocations :
    /\ SameButCredentialFlag(inv[p], inv[q])
    /\ Len(inv[p].calls) = 1
    /\ Len(inv[q].calls) = 1
    /\ inv[p].res.status = 200
    /\ inv[q].res.status = 200

\* C7: order assembly is field by field: each of symbol, side, orderType,
\* quantity, stopLoss and takeProfit holds the payload's value whenever the
\* payload has a non-null value for it (0 included) and the bot's default
\* otherwise; price is the payload's price and never a bot default.
C7_FieldByField ==
  \A p \in Invocations :
    LET s == inv[p]
        a == s.alertData
        b == s.bot
        o == s.orderParams
    IN o # NoParams =>
         /\ o.symbol = Coalesce(a.symbol, b.symbol)
         /\ o.side = Coalesce(a.side, b.default_side)
         /\ o.orderType = Coalesce(a.orderType, b.default_order_type)
         /\ o.quantity = Coalesce(a.quantity, b.default_quantity)
         /\ o.stopLoss = Coalesce(a.stopLoss, b.default_stop_loss)
         /\ o.takeProfit = Coalesce(a.takeProfit, b.default_take_profit)
         /\ o.price = a.price

\* The credential's key or secret appears in the text.
Leaks(text, s) ==
  Contains(text, s.apiKey.api_key) \/ Contains(text, s.apiKey.api_secret)

\* C10: the credential's api_key and api_secret appear in no log line, no
\* thrown error message and no HTTP response body produced while processing
\* an alert, on the success path and on every failure path.
C10_NoCredentialInOutput ==
  \A p \in Invocations :
    LET s == inv[p]
    IN s.apiKey # NoKey =>
         /\ \A i \in 1..Len(s.log) : ~Leaks(s.log[i].data, s)
         /\ s.pc = "done" /\ s.res.status # 200 => ~Leaks(s.res.body.error, s)
         /\ s.pc = "done" /\ s.res.status = 200 =>
              ~Leaks(<<s.res.body.orderId, s.res.body.status>>, s)

\* A trade_count as a number: NULL counts as 0.
Base(count) == IF count = NoCount THEN 0 ELSE count

\* The alert was answered after its step 4 (real or simulated) succeeded.
Succeeded(s) == s.pc = "done" /\ Executed(s)

\* Two different invocations whose alerts resolved to the same bot and both
\* succeeded.
BothSucceeded(p, q) ==
  /\ p # q
  /\ Succeeded(inv[p])
  /\ Succeeded(inv[q])
  /\ inv[p].webhook.bot_id = inv[q].webhook.bot_id

\* How far the bot's trade_count is above its starting value.
Counted(id) == Base(bots[id].trade_count) - Base(InitBots[id].trade_count)

\* C11 (as amended): when two alerts for the same bot are processed by
\* invocations that may overlap and both succeed, both get a 200 response,
\* the Trade row of each is written when the store accepts its insert, and the
\* bot's trade_count ends at most 2 above its starting value (never
\* over-counted) and at least 1 above it when the store accepts at least one
\* of the two counter updates: of two accepted updates one may be lost.
C11_CounterNeverOverCounts ==
  \A p, q \in Invocations :
    BothSucceeded(p, q) =>
      LET id == inv[p].webhook.bot_id
      IN /\ inv[p].res.status = 200
         /\ inv[q].res.status = 200
         /\ Answer(inv[p], "trades.insert") = "ok" =>
              \E i \in 1..Len(trades) : trades[i] = Rows(inv[p], "trades")[1].row
         /\ Len(trades) =
              Len(Rows(inv[p], "trades")) + Len(Rows(inv[q], "trades"))
         /\ Counted(id) <= 2
         /\ Counted(id) >=
              (IF Rows(inv[p], "bots") = <<>> /\ Rows(inv[q], "bots") = <<>>
                 THEN 0 ELSE 1)
         /\ Counted(id) \in {Len(Rows(inv[p], "bots")),
                              Len(Rows(inv[p], "bots")) + Len(Rows(inv[q], "bots"))}

\* C11 as stated: both succeed, so both Trade rows are written and the counter
\* ends 1 or 2 above its starting value.
C11_AsStated ==
  \A p, q \in Invocations :
    BothSucceeded(p, q) =>
      /\ inv[p].res.status = 200
      /\ Len(Rows(inv[p], "trades")) = 1
      /\ Counted(inv[p].webhook.bot_id) \in {1, 2}

\* Two overlapping alerts of a bot that had counted 3 trades both succeeded,
\* the store accepted every write, both rows are there, and the counter
\* stands at 4: one update was lost.
C11_Witness ==
  \E p, q \in Invocations :
    /\ BothSucceeded(p, q)
    /\ InitBots[inv[p].webhook.bot_id].trade_count = 3
    /\ Len(Rows(inv[p], "bots")) = 1
    /\ Len(Rows(inv[q], "bots")) = 1
    /\ Len(trades) = 2
    /\ Counted(inv[p].webhook.bot_id) = 1

\* The invocations that, in this step, end with a counter update of bot `id`
\* that the store accepted.
Updating(id) ==
  {p \in Invocations :
     /\ inv[p].pc = "update"
     /\ inv'[p].pc = "done"
     /\ inv[p].webhook.bot_id = id
     /\ Answer(inv'[p], "bots.update") = "ok"}

\* The invocations that, in this step, end after a successful step 4 for bot
\* `id`.
Finishing(id) ==
  {p \in Invocations :
     /\ inv[p].pc = "update"
     /\ inv'[p].pc = "done"
     /\ inv[p].webhook.bot_id = id}

\* The step leaves both counters of bot `id` as they are.
CountersKept(id) ==
  /\ bots'[id].trade_count = bots[id].trade_count
  /\ bots'[id].last_trade_at = bots[id].last_trade_at

\* The step raises the trade_count of bot `id` by one (from NULL or 0 to 1)
\* and sets its last_trade_at to the time of the step.
CountersBumped(id) ==
  /\ bots'[id].trade_count = Base(bots[id].trade_count) + 1
  /\ bots'[id].last_trade_at = now

\* C12 (as amended): when alerts are processed one after another without
\* overlap, each alert whose step 4 succeeds and whose counter update the store
\* accepts raises the bot's trade_count by exactly 1 (a NULL or zero count
\* becomes 1) and sets last_trade_at to the processing time; an alert whose
\* update the store rejects, and every alert that fails in step 1, 2 or 4,
\* leaves both fields unchanged.
C12_SequentialCounts ==
  /\ [][\A id \in BotIds :
          IF Updating(id) # {} THEN CountersBumped(id) ELSE CountersKept(id)]_vars
  /\ [](\A p \in Invocations :
          inv[p].pc = "done" /\ ~Executed(inv[p]) =>
            ~Asked(inv[p], "bots.update") /\ Rows(inv[p], "bots") = <<>>)

\* C12 as stated: every alert whose step 4 succeeds raises the counter by 1
\* and sets last_trade_at.
C12_AsStated ==
  [][\A id \in BotIds : Finishing(id) # {} => CountersBumped(id)]_vars

\* Two alerts of a bot that had never traded were processed one after the
\* other, the second at time 1: the counter stands at 2 and last_trade_at at 1.
C12_Witness ==
  \E p, q \in Invocations :
    /\ BothSucceeded(p, q)
    /\ InitBots[inv[p].webhook.bot_id].trade_count = NoCount
    /\ bots[inv[p].webhook.bot_id].trade_count = 2
    /\ bots[inv[p].webhook.bot_id].last_trade_at = 1
    /\ now = 1

\* The step leaves the trades table alone or appends one row to it.
AppendsOnly ==
  \/ trades' = trades
  \/ /\ Len(trades') = Len(trades) + 1
     /\ SubSeq(trades', 1, Len(trades)) = trades

\* No invocation inserts more than one row, and one whose step 4 succeeded
\* inserts exactly one when the store accepts the insert.
OneRowEach ==
  \A p \in Invocations :
    LET s == inv[p]
    IN /\ Count(s.ops, "trades.insert") <= 1
       /\ Len(Rows(s, "trades")) <= 1
       /\ ~Executed(s) => ~Asked(s, "trades.insert")
       /\ Succeeded(s) =>
            /\ Count(s.ops, "trades.insert") = 1
            /\ Answer(s, "trades.insert") = "ok" =>
                 /\ Len(Rows(s, "trades")) = 1
                 /\ \E i \in 1..Len(trades) : trades[i] = Rows(s, "trades")[1].row

\* Every row of the table is the one row some invocation inserted.
RowsAccounted ==
  \A i \in 1..Len(trades) :
    \E p \in Invocations :
      /\ Len(Rows(inv[p], "trades")) = 1
      /\ Rows(inv[p], "trades")[1].row = trades[i]

\* C13: the trades store is append-only under processAlert: no step updates
\* or deletes an existing Trade row, no invocation inserts more than one row,
\* and every alert whose step 4 succeeds (real or simulated) inserts exactly
\* one row when the store accepts the insert; the table holds the rows the
\* invocations inserted and no others.
C13_TradesAppendOnly ==
  /\ [][AppendsOnly]_vars
  /\ [](OneRowEach /\ RowsAccounted)

\* A real order and a simulated one were both answered 200 and the table
\* holds their two rows, the real one first.
C13_Witness ==
  /\ Len(trades) = 2
  /\ trades[1].status = "Created"
  /\ trades[2].status = "TEST_ORDER"
  /\ \A p \in Invocations : inv[p].res.status = 200

\* A bot row but for its two counters.
BotFrame(b) == [f \in DOMAIN b \ {"trade_count", "last_trade_at"} |-> b[f]]

\* The bots whose alert is in flight past step 1.
Resolved == {inv[p].webhook.bot_id : p \in Invocations} \ {""}

\* C14: the only writes processAlert makes to the backing store are one
\* insert into trades and one update of the resolved bot's trade_count and
\* last_trade_at: webhook rows, credential rows, other bots and every other
\* field of the bot (symbol, defaults, test_mode, status) are left unchanged by
\* every step of every invocation.
C14_OnlyTradeAndCounters ==
  /\ [][/\ webhooks' = webhooks
        /\ api_keys' = api_keys
        /\ DOMAIN bots' = DOMAIN bots
        /\ \A id \in DOMAIN bots :
             /\ BotFrame(bots'[id]) = BotFrame(bots[id])
             /\ bots'[id] # bots[id] => id \in Resolved]_vars
  /\ [](\A p \in Invocations :
          LET s == inv[p]
          IN /\ Len(Rows(s, "trades")) <= 1
             /\ Len(Rows(s, "bots")) <= 1
             /\ Len(s.wrote) = Len(Rows(s, "trades")) + Len(Rows(s, "bots"))
             /\ \A i \in 1..Len(Rows(s, "bots")) :
                  /\ Rows(s, "bots")[i].row.id = s.webhook.bot_id
                  /\ DOMAIN Rows(s, "bots")[i].row =
                       {"id", "trade_count", "last_trade_at"})

\* An alert wrote its trade and its bot's counters; the bot's other fields,
\* the other bots, the webhooks and the credentials are as they were.
C14_Witness ==
  \E p \in Invocations :
    LET id == inv[p].webhook.bot_id
    IN /\ Len(inv[p].wrote) = 2
       /\ inv[p].pc = "done"
       /\ bots[id] # InitBots[id]
       /\ BotFrame(bots[id]) = BotFrame(InitBots[id])
       /\ \A b \in BotIds \ {id} : bots[b] = InitBots[b]
       /\ webhooks = InitWebhooks
       /\ api_keys = InitApiKeys

\* The headers allow any origin, the methods POST and OPTIONS and the headers
\* Content-Type and Authorization.
AllowsCrossOrigin(headers) ==
  /\ <<"Access-Control-Allow-Origin", "*">> \in headers
  /\ <<"Access-Control-Allow-Methods", "POST, OPTIONS">> \in headers
  /\ <<"Access-Control-Allow-Headers", "Content-Type, Authorization">> \in headers

\* The invocation touched neither the store nor the exchange.
Untouched(s) == s.ops = <<>> /\ s.calls = <<>> /\ s.wrote = <<>>

\* C15: an OPTIONS request gets 204 and any method other than POST and
\* OPTIONS gets 405, in both cases with no read or write of the store and no
\* exchange call; every response the handler returns, whatever its status,
\* carries the CORS headers.
C15_MethodsAndCors ==
  \A p \in Invocations :
    LET s == inv[p]
    IN /\ s.req.method = "OPTIONS" =>
            s.pc = "done" /\ s.res.status = 204 /\ Untouched(s)
       /\ s.req.method \notin {"", "POST", "OPTIONS"} =>
            s.pc = "done" /\ s.res.status = 405 /\ Untouched(s)
       /\ s.res.status \in {204, 405} => s.req.method # "POST"
       /\ s.res # NoResponse => AllowsCrossOrigin(s.res.headers)

\* A preflight was answered 204 and a GET 405.
C15_Witness ==
  \E p, q \in Invocations :
    /\ inv[p].req.method = "OPTIONS"
    /\ inv[p].res.status = 204
    /\ inv[q].req.method = "GET"
    /\ inv[q].res.status = 405
    /\ AllowsCrossOrigin(inv[q].res.headers)

\* The invocation has returned a response, or has not returned yet.
OneResponse(s) ==
  /\ s.pc = "done" <=> s.res # NoResponse
  /\ s.res # NoResponse => s.res.status \in {200, 204, 400, 404, 405, 500}
  /\ s.pc \in {"idle", "verify", "creds", "execute", "insert", "update", "done"}

\* C16: every invocation of processAlert ends with exactly one HTTP response,
\* whose status is 200, 204, 400, 404, 405 or 500: whatever the store, the
\* payload parse and the exchange call do, an invocation that has started
\* returns a response, and once it has returned it does nothing more.
C16_AlwaysAnswers ==
  /\ [](\A p \in Invocations : OneResponse(inv[p]))
  /\ [][\A p \in Invocations : inv[p].pc = "done" => inv'[p] = inv[p]]_vars
  /\ \A p \in Invocations : inv[p].pc # "idle" ~> inv[p].pc = "done"

\* An alert whose order the exchange could not be reached for was answered
\* 500.
C16_Witness ==
  \E p \in Invocations :
    /\ inv[p].pc = "done"
    /\ Asked(inv[p], "exchange.post")
    /\ Answer(inv[p], "exchange.post") = "transport:-1"
    /\ inv[p].res.status = 500
    /\ inv[p].res.body.error = <<"Failed to execute order: ", "Network Error">>

\* The client call has ended after sending an order request.
Requested(c) ==
  c.pc = "done" /\ c.fn = "executeBybitOrder" /\ c.sent # NoSent

\* Whether the request sent carries a price, a stop-loss, a take-profit, and
\* the time-in-force it carries, whichever protocol's names it uses.
PriceSent(c) == "price" \in DOMAIN c.sent.params
StopSent(c) == {"stop_loss", "stopLoss"} \cap DOMAIN c.sent.params # {}
TakeSent(c) == {"take_profit", "takeProfit"} \cap DOMAIN c.sent.params # {}
TifSent(c) ==
  IF "time_in_force" \in DOMAIN c.sent.params
    THEN c.sent.params["time_in_force"]
    ELSE c.sent.params["timeInForce"]

\* The vendor answered with a return code other than zero; there was no
\* usable answer at all.
VendorFailure(c) == c.reply.kind = "response" /\ c.reply.code # 0
TransportFailure(c) == c.reply.kind = "transport"

\* The error classes that stand for a transport failure and for nothing else.
TransportErrors == {"AxiosError", "TransportError"}

\* C17: executeBybitOrder returns an order result only when the vendor return
\* code is zero; a non-zero vendor code makes it fail with an error carrying
\* the vendor code and message verbatim; a transport failure makes it fail
\* with an error of a distinct kind, so that the caller can tell the two
\* kinds of failure apart.
C17_FailuresDistinct ==
  call.pc = "done" /\ call.fn = "executeBybitOrder" =>
    /\ call.ok <=> call.reply.kind = "response" /\ call.reply.code = 0
    /\ VendorFailure(call) =>
         /\ Contains(call.error.message, ToString(call.reply.code))
         /\ \A i \in 1..Len(call.reply.message) :
              Contains(call.error.message, call.reply.message[i])
         /\ call.error.name \notin TransportErrors
    /\ TransportFailure(call) => call.error.name \in TransportErrors

\* C18: in the request executeBybitOrder builds, price is included only when
\* the order type is Limit, and stop-loss and take-profit are each included
\* only when the caller gave a non-null value, which is the value sent; a
\* Market order never carries a price, even when the caller supplied one.
C18_OptionalOnlyWhenDue ==
  Requested(call) =>
    /\ PriceSent(call) => call.op.orderType = Str("Limit")
    /\ call.op.orderType = Str("Market") => ~PriceSent(call)
    /\ StopSent(call) => ~Nullish(call.op.stopLoss)
    /\ TakeSent(call) => ~Nullish(call.op.takeProfit)
    /\ \A k \in DOMAIN call.sent.params :
         /\ k = "price" => ValText(call.sent.params[k]) = ValText(call.op.price)
         /\ k \in {"stop_loss", "stopLoss"} =>
              ValText(call.sent.params[k]) = ValText(call.op.stopLoss)
         /\ k \in {"take_profit", "takeProfit"} =>
              ValText(call.sent.params[k]) = ValText(call.op.takeProfit)

\* The V5 client sent a Market order whose caller gave a price of 100, a null
\* stop-loss and a take-profit: the request has the take-profit and neither a
\* price nor a stop-loss.
C18_Witness ==
  /\ Requested(call)
  /\ call.client = "bybit.mjs"
  /\ call.op.orderType = Str("Market")
  /\ call.op.price = Num("100")
  /\ call.op.stopLoss = Null
  /\ ~PriceSent(call)
  /\ ~StopSent(call)
  /\ TakeSent(call)

\* C19: the time-in-force executeBybitOrder sends is immediate-or-cancel for
\* Market orders and post-only for Limit orders by default, and a
\* time-in-force the caller supplies overrides that default.
C19_TimeInForcePolicy ==
  Requested(call) =>
    IF ~Nullish(call.op.timeInForce)
      THEN TifSent(call) = call.op.timeInForce
    ELSE IF call.op.orderType = Str("Market")
      THEN TifSent(call) \in {Str("IOC"), Str("ImmediateOrCancel")}
    ELSE TifSent(call) = Str("PostOnly")

\* The webhook resolved but the row of its bot is gone: the join gave null.
BotMissing(s) == s.webhook # NoRow /\ s.webhook.bots = NoBot

\* The request's body did not parse as JSON.
BadPayload(s) == s.res = ErrorResponse(500, <<"Unexpected token in JSON">>)

\* C20: when the bot row joined to a webhook is missing (the bot was deleted
\* while its webhook stayed), an alert with a well-formed payload gets the
\* same 404 as an unknown token, never a partial result and never a 500.
C20_MissingBotIsNotFound ==
  \A p \in Invocations :
    BotMissing(inv[p]) /\ ~BadPayload(inv[p]) =>
      /\ inv[p].pc = "done"
      /\ inv[p].res = ErrorResponse(404, <<"Invalid or expired webhook">>)
      /\ inv[p].wrote = <<>>
      /\ inv[p].calls = <<>>

\* The webhook rows added since the start.
Created == webhooks \ InitWebhooks

\* C21: every webhook row the program creates, through the generateWebhook
\* function or through the configuration page's generateWebhook, carries a
\* token of at least 32 characters.
C21_TokensAreLong == \A w \in Created : Len(w.webhook_token) >= 32

\* The awaited calls of an invocation, in the order they were made.
Awaited(s) == SelectSeq(s.ops, LAMBDA o : o # "Date.now")

Prefix(a, b) == Len(a) <= Len(b) /\ a = SubSeq(b, 1, Len(a))

StepsReal ==
  <<"webhooks.select", "api_keys.select", "exchange.post", "trades.insert",
    "bots.update">>

StepsSimulated ==
  <<"webhooks.select", "api_keys.select", "trades.insert", "bots.update">>

\* The invocation is at `pc`, or has already made the call `op`.
Began(s, pc, op) == s.pc = pc \/ Asked(s, op)

InOrder(s) ==
  /\ Prefix(Awaited(s), StepsReal) \/ Prefix(Awaited(s), StepsSimulated)
  /\ Began(s, "creds", "api_keys.select") =>
       Asked(s, "webhooks.select") /\ Answer(s, "webhooks.select") = "valid"
  /\ (Began(s, "execute", "exchange.post") \/ Executed(s)) =>
       Asked(s, "api_keys.select") /\ Answer(s, "api_keys.select") = "one"
  /\ Began(s, "insert", "trades.insert") =>
       /\ Executed(s)
       /\ Asked(s, "exchange.post") => Answer(s, "exchange.post") = "response:0"
  /\ Began(s, "update", "bots.update") => Asked(s, "trades.insert")
  /\ Asked(s, "trades.insert") => Began(s, "update", "bots.update")

\* C22: within one alert the awaited steps run one at a time in a fixed
\* order: the credential read only after the webhook resolved, the exchange
\* call or the simulation only after the credential was found, the trade
\* insert only after the order step returned a result, and the counter update
\* after the insert was attempted, whether the store accepted it or not.
C22_StepsInOrder == \A p \in Invocations : InOrder(inv[p])

\* A real order whose trade insert the store rejected, and whose counter
\* update was attempted all the same.
C22_Witness ==
  \E p \in Invocations :
    /\ inv[p].pc = "done"
    /\ Awaited(inv[p]) = StepsReal
    /\ Answer(inv[p], "trades.insert") = "error"

\* A call of the legacy client that has returned or thrown.
LegacyDone == call.pc = "done" /\ call.client = "bybit.js"

\* key=value joined with '&' for the keys in lexicographic order.
SortedQuery(params) == DropLast(JoinPairs(SortedKeys(DOMAIN params), params))

\* C23: the string the legacy client signs is the transmitted parameters
\* (all but sign, the transmitted timestamp included) sorted by key and joined
\* as key=value with '&'.
C23_SignsWhatIsSent ==
  LegacyDone => call.sent.sign.text = SortedQuery(call.sent.params)

\* C24: the legacy signer depends on the secret and the parameters only: a
\* second application to the same secret and the same parameters, at whatever
\* time, returns the signature the call was sent with.
C24_SignerIsPure ==
  LegacyDone =>
    \A t \in 0..MaxTime :
      generateSignature(call.op.apiSecret, RequestParams(call.op), t).signature
        = call.sent.sign

\* A call of the V5 client that has ended; one that sent its request.
V5Done(c) == c.pc = "done" /\ c.client = "bybit.mjs"
V5Sent(c) == V5Done(c) /\ c.sent # NoSent

\* The timestamp, key and window headers of the request, concatenated.
HeaderPrefix(r) ==
  r.headers["X-BAPI-TIMESTAMP"] \o r.headers["X-BAPI-API-KEY"]
    \o r.headers["X-BAPI-RECV-WINDOW"]

\* What the signed string holds after the first n characters.
After(text, n) == SubSeq(text, n + 1, Len(text))

StartsWith(text, prefix) ==
  Len(prefix) <= Len(text) /\ SubSeq(text, 1, Len(prefix)) = prefix

\* The timestamps a request may carry.
Timestamps == {ToString(t + d) : t \in 0..MaxTime, d \in Skews}

\* What each request the client can build carries and signs.
Signable(r) ==
  [method |-> r.method, timestamp |-> r.timestamp,
   body |-> IF r.method = "POST" THEN r.body ELSE r.query,
   text |-> r.sign.text]

AllSigned ==
  {Signable(OrderRequestV5(op, ts)) : op \in CallParams, ts \in Timestamps}
    \cup {Signable(PositionsRequestV5(op, ts)) :
            op \in CallParams, ts \in Timestamps}

SignsBody(c) ==
  LET r == c.sent
      text == r.sign.text
      body == After(text, Len(HeaderPrefix(r)))
  IN /\ StartsWith(text, HeaderPrefix(r))
     /\ r.headers["X-BAPI-SIGN"] = Hmac(c.op.apiSecret, text)
     /\ r.headers["X-BAPI-API-KEY"] = c.op.apiKey
     /\ r.method = "POST" => body = r.body
     /\ r.method = "GET" =>
          r.url = BaseUrlV5(r.testnet) \o "/v5/position/list?" \o body
     /\ \A other \in AllSigned :
          other.body # Signable(r).body => other.text # text

\* C25: a V5 request is signed over timestamp + apiKey + recvWindow + body,
\* where body is the JSON text posted (or the query string appended to the
\* URL of a GET) and the timestamp and window are the header values sent; a
\* request with another body is signed over another string.
C25_SignedStringV5 == V5Sent(call) => SignsBody(call)

\* A limit order with a price of 100 and no stops was posted, and the string
\* signed ends with the JSON text that was posted.
C25_Witness ==
  /\ V5Sent(call)
  /\ call.fn = "executeBybitOrder"
  /\ call.sent.body =
       "{\"category\":\"linear\",\"symbol\":\"BTCUSDT\",\"side\":\"Buy\","
         \o "\"orderType\":\"Limit\",\"qty\":\"1\","
         \o "\"timeInForce\":\"PostOnly\",\"price\":\"100\"}"
  /\ call.sent.sign.text = "5KEY-A15000" \o call.sent.body

\* The clock request was answered with a time.
ClockAnswered(c) == c.fetched.kind = "response" /\ c.fetched.code = 0

\* The clock endpoint asked and the request sent belong to the same venue.
SameVenue(c) ==
  \E base \in {MAINNET_URL_V5, TESTNET_URL_V5} :
    /\ c.fetched.url = base \o "/v5/market/time"
    /\ StartsWith(c.sent.url, base \o "/v5/")

ClockFirst(c) ==
  /\ c.fetched.url = ClockUrl(c.op.testnet)
  /\ c.sent # NoSent =>
       /\ ClockAnswered(c)
       /\ SameVenue(c)
       /\ c.sent.timestamp = c.fetched.time
       /\ c.sent.headers["X-BAPI-TIMESTAMP"] = c.fetched.time
       /\ StartsWith(c.sent.sign.text, c.fetched.time \o c.op.apiKey)
  /\ ~ClockAnswered(c) => c.sent = NoSent /\ ~c.ok

\* C26: every V5 order placement and position query asks the clock endpoint
\* of the venue it is about to use, signs and stamps the request with the time
\* that endpoint returned, and sends no request when the clock request fails
\* or answers with a non-zero code.
C26_ServerClockFirst == V5Done(call) => ClockFirst(call)

\* A position query on the testnet whose clock request returned a time five
\* ahead of the local clock, and which was stamped with that time.
C26_Witness ==
  /\ V5Sent(call)
  /\ call.fn = "getBybitPositions"
  /\ call.op.testnet
  /\ call.at = 0
  /\ call.fetched.time = "5"
  /\ call.sent.timestamp = "5"

\* The order requests the invocation's exchange client sent.
Placed(s) == {s.calls[i] : i \in 1..Len(s.calls)}

\* C27: whenever processAlert calls the exchange client the testnet flag it
\* passes is false, and the order goes to the mainnet URL; no order is ever
\* posted to the testnet URL.
C27_OrdersGoToMainnet ==
  \A p \in Invocations :
    /\ inv[p].pc = "execute" \/ Asked(inv[p], "exchange.post") =>
         inv[p].orderParams.testnet = FALSE
    /\ \A r \in Placed(inv[p]) :
         /\ r.testnet = FALSE
         /\ r.url = MAINNET_URL \o "/v2/private/order/create"
         /\ ~StartsWith(r.url, TESTNET_URL)

\* A bot with test mode off whose owner's credential row has test mode on:
\* the order was posted, with the flag off.
C27_Witness ==
  \E p \in Invocations :
    /\ inv[p].pc = "done"
    /\ inv[p].res.status = 200
    /\ Placed(inv[p]) # {}
    /\ inv[p].apiKey.test_mode
    /\ ~inv[p].bot.test_mode

\* C28: a bot's stored trade_count never decreases: whatever the interleaving
\* of the invocations for the bot, every write of trade_count stores a value
\* at least as large as the one it replaces.
C28_CountNeverDecreases ==
  [][\A id \in DOMAIN bots :
       id \in DOMAIN bots' =>
         Base(bots'[id].trade_count) >= Base(bots[id].trade_count)]_vars

\* Two runs that resolved a bot and whose inputs agree on everything but the
\* bot's status: the same request and payload, the same bot row otherwise, the
\* same credential, the same answers from the store and the exchange and the
\* same clock readings.
SameButStatus(s, t) ==
  /\ s.bot # NoBot
  /\ t.bot # NoBot
  /\ s.bot.status # t.bot.status
  /\ [s.bot EXCEPT !.status = ""] = [t.bot EXCEPT !.status = ""]
  /\ s.req = t.req
  /\ s.alertData = t.alertData
  /\ s.apiKey = t.apiKey
  /\ s.env = t.env

\* C29: processing an alert does not depend on bot.status: a run for a bot
\* that is 'paused' and a run for the same bot 'active', everything else
\* equal, make the same exchange call or simulation, write the same trade row
\* and counter update and return the same response.
C29_StatusIgnored ==
  \A p, q \in Invocations :
    SameButStatus(inv[p], inv[q]) =>
      /\ inv[p].calls = inv[q].calls
      /\ inv[p].orderResult = inv[q].orderResult
      /\ inv[p].wrote = inv[q].wrote
      /\ inv[p].pc = inv[q].pc
      /\ inv[p].res = inv[q].res

\* A real order was placed, recorded and answered 200 for bot b2 paused, and
\* again for b2 active.
C29_Witness ==
  \E p, q \in Invocations :
    /\ SameButStatus(inv[p], inv[q])
    /\ inv[p].bot.id = "b2"
    /\ inv[p].bot.status = "paused"
    /\ inv[q].bot.status = "active"
    /\ inv[p].pc = "done" /\ inv[q].pc = "done"
    /\ inv[p].res.status = 200
    /\ Len(inv[p].calls) = 1
    /\ Len(inv[p].wrote) = 2

\* The invocation simulated its order.
Simulated(s) == Executed(s) /\ s.orderResult.status = "TEST_ORDER"

\* The rows of trades that record simulated orders.
TestRows == {i \in 1..Len(trades) : trades[i].status = "TEST_ORDER"}

\* C30: simulated order ids are unique: two different test-mode alerts, for
\* the same bot or for different bots, one after the other or overlapping, get
\* different order ids, and their trade rows have different order_id values.
C30_TestOrderIdsUnique ==
  /\ \A p, q \in Invocations :
       p # q /\ Simulated(inv[p]) /\ Simulated(inv[q]) =>
         inv[p].orderResult.orderId # inv[q].orderResult.orderId
  /\ \A i, j \in TestRows : i # j => trades[i].order_id # trades[j].order_id

====
